---- MODULE Spec2Model ----
(***************************************************************************)
(* A model of the helpers of rasa_core/utils.py: extract_args,            *)
(* cap_length, one_hot, subsample_array, request_input, wait_for_threads  *)
(* and the HashableNDArray wrapper.  Every behaviour exercises one helper *)
(* (variable fn): Init draws its arguments from bounded sets, the actions *)
(* are the helper's call or the steps of its loop.                        *)
(***************************************************************************)
EXTENDS Integers, Sequences, FiniteSets, TLC

VARIABLES
    fn,         \* the helper this behaviour exercises
    pc,         \* control position of the call
    args,       \* the arguments of the call, as passed
    ret,        \* outcome of the call: [kind, exc, value]
    arr,        \* subsample_array: the caller's list object
    alive,      \* wait_for_threads: alive[t] is what t.isAlive() returns
    threads,    \* wait_for_threads: the local list of tracked threads
    i,          \* wait_for_threads: position inside the running comprehension
    kept,       \* wait_for_threads: the list the filter has built so far
    log,        \* wait_for_threads: the messages given to logger.info
    stdin,      \* request_input: what the calls of input() produced, oldest first
    stdout,     \* request_input: the messages printed, oldest first
    heap,       \* HashableNDArray: the ndarray objects, by identity
    exposed,    \* HashableNDArray: the identities of the arrays the caller holds
    wrappers,   \* HashableNDArray: the wrapper objects' private fields
    snapshot    \* HashableNDArray: history, the array each wrapper was built from

waitVars == <<alive, threads, i, kept, log>>

inputVars == <<stdin, stdout>>

hashVars == <<heap, exposed, wrappers, snapshot>>

vars == <<fn, pc, args, ret, arr, alive, threads, i, kept, log, stdin, stdout,
          heap, exposed, wrappers, snapshot>>

(***************************************************************************)
(* Bounds of the model.                                                    *)
(***************************************************************************)
MaxKeys == 3
MaxStrLen == 4
MaxCharLimit == 5
MaxOneHot == 3
MaxListLen == 3
MaxThreads == 2
MaxReads == 3
MaxValid == 2
MaxShape == 1
MaxHeap == 4

(***************************************************************************)
(* Python helpers.                                                         *)
(***************************************************************************)
Min(a, b) == IF a < b THEN a ELSE b

Max(a, b) == IF a > b THEN a ELSE b

\* s[:n] : a negative stop counts from the end, the stop is clamped to [0, len].
PySliceTo(s, n) ==
    LET stop == IF n < 0 THEN Max(Len(s) + n, 0) ELSE Min(n, Len(s))
    IN  SubSeq(s, 1, stop)

NoOutcome == [kind |-> "none", exc |-> "", value |-> <<>>]

Return(v) == [kind |-> "return", exc |-> "", value |-> v]

Raise(e) == [kind |-> "raise", exc |-> e, value |-> <<>>]

\* sys.exit(status): SystemExit carrying the exit status
Exit(status) == [kind |-> "exit", exc |-> "SystemExit", value |-> <<status>>]

Range(s) == {s[n] : n \in 1..Len(s)}

\* the number of occurrences of x in the list s
Count(s, x) == Cardinality({n \in 1..Len(s) : s[n] = x})

(***************************************************************************)
(* extract_args                                                            *)
(***************************************************************************)
Keys == 1..MaxKeys

Vals == {"u", "v"}

\* a dict: a function from its keys to their values
Dicts == UNION {[D -> Vals] : D \in SUBSET Keys}

EmptyDict == [k \in {} |-> "u"]

DictSet(d, k, v) == [x \in (DOMAIN d) \cup {k} |-> IF x = k THEN v ELSE d[x]]

\* the loop over kwargs.items(): todo holds the keys not yet visited
RECURSIVE extract_loop_noelse(_, _, _, _, _)
extract_loop_noelse(kwargs, keys_to_extract, todo, extracted, remaining) ==
    IF todo = {} THEN <<extracted, remaining>>
    ELSE LET k == CHOOSE x \in todo : TRUE
         IN  IF k \in keys_to_extract
             THEN extract_loop_noelse(kwargs, keys_to_extract, todo \ {k},
                                      DictSet(extracted, k, kwargs[k]),
                                      DictSet(remaining, k, kwargs[k]))
             ELSE extract_loop_noelse(kwargs, keys_to_extract, todo \ {k},
                                      extracted, DictSet(remaining, k, kwargs[k]))

RECURSIVE extract_loop(_, _, _, _, _)
extract_loop(kwargs, keys_to_extract, todo, extracted, remaining) ==
    IF todo = {} THEN <<extracted, remaining>>
    ELSE LET k == CHOOSE x \in todo : TRUE
         IN  IF k \in keys_to_extract
             THEN extract_loop(kwargs, keys_to_extract, todo \ {k},
                               DictSet(extracted, k, kwargs[k]), remaining)
             ELSE extract_loop(kwargs, keys_to_extract, todo \ {k},
                               extracted, DictSet(remaining, k, kwargs[k]))

extract_args(kwargs, keys_to_extract) ==
    extract_loop(kwargs, keys_to_extract, DOMAIN kwargs, EmptyDict, EmptyDict)

(***************************************************************************)
(* cap_length                                                              *)
(***************************************************************************)
Chars == {"a", "."}

Strings == UNION {[1..n -> Chars] : n \in 0..MaxStrLen}

Ellipsis == <<".", ".", ".">>

cap_length(s, char_limit, append_ellipsis) ==
    IF Len(s) > char_limit
    THEN IF append_ellipsis
         THEN PySliceTo(s, char_limit - 3) \o Ellipsis
         ELSE PySliceTo(s, char_limit)
    ELSE s

(***************************************************************************)
(* one_hot                                                                 *)
(***************************************************************************)
\* numpy.zeros(length, dtype): a negative dimension raises ValueError
numpy_zeros(length) ==
    IF length < 0 THEN Raise("ValueError") ELSE Return([n \in 1..length |-> 0])

\* r[idx] = v on a 1-d ndarray: -len <= idx < 0 counts from the end,
\* anything outside [-len, len) raises IndexError
numpy_setitem(r, idx, v) ==
    IF idx >= Len(r) \/ idx < -Len(r) THEN Raise("IndexError")
    ELSE LET pos == IF idx < 0 THEN idx + Len(r) ELSE idx
         IN  Return([r EXCEPT ![pos + 1] = v])

one_hot(hot_idx, length) ==
    IF hot_idx >= length THEN Raise("Exception: out of range")
    ELSE LET r == numpy_zeros(length)
         IN  IF r.kind = "raise" THEN r
             ELSE numpy_setitem(r.value, hot_idx, 1)

(***************************************************************************)
(* subsample_array                                                         *)
(***************************************************************************)
Elems == {"x", "y"}

Lists == UNION {[1..n -> Elems] : n \in 0..MaxListLen}

\* random.shuffle(arr) / rand.shuffle(arr): the list permuted in place, by a
\* permutation the generator picks (the caller's generator rand, or the
\* module's: either may pick any)
Shuffled(a, p) == [n \in 1..Len(a) |-> a[p[n]]]

\* the outcome of one call: the list returned and the caller's list afterwards
subsample_array_offbyone(a, max_values, can_modify_incoming_array, p) ==
    LET local == Shuffled(a, p)
    IN  [result |-> PySliceTo(local, max_values + 1),
         caller |-> IF can_modify_incoming_array THEN local ELSE a]

subsample_array(a, max_values, can_modify_incoming_array, p) ==
    LET local == Shuffled(a, p)   \* arr[:] when the caller's list is kept
    IN  [result |-> PySliceTo(local, max_values),
         caller |-> IF can_modify_incoming_array THEN local ELSE a]

(***************************************************************************)
(* request_input                                                           *)
(***************************************************************************)
Answers == {"y", "n"}

\* valid_values: None, or a list of answers
ValidValues ==
    {[given |-> FALSE, values |-> <<>>]} \cup
    {[given |-> TRUE, values |-> v] :
        v \in UNION {[1..n -> Answers] : n \in 0..MaxValid}}

\* what one call of input() does: it returns a line, or raises
InputEvents ==
    {[kind |-> "line", text |-> a] : a \in Answers} \cup
    {[kind |-> "ValueError", text |-> ""], [kind |-> "EOFError", text |-> ""]}

\* the text of wrong_input_message(): the first max_suggested values, and
\* ",..." when there are more
wrong_input_message(valid_values, max_suggested) ==
    [shown |-> PySliceTo(valid_values.values, max_suggested),
     more |-> Len(valid_values.values) > max_suggested]

\* the negation of: valid_values is not None and input_value not in valid_values
Acceptable_unchecked(valid_values, input_value) == TRUE

Acceptable(valid_values, input_value) ==
    ~(valid_values.given /\ input_value \notin Range(valid_values.values))

(***************************************************************************)
(* wait_for_threads                                                        *)
(***************************************************************************)
Threads == 1..MaxThreads

ThreadLists == UNION {[1..n -> Threads] : n \in 0..MaxThreads}

\* the filter of the second comprehension: t is kept if t.isAlive()
FilterKeeps_inverted(t) == ~alive[t]

FilterKeeps(t) == alive[t]

(***************************************************************************)
(* HashableNDArray                                                         *)
(***************************************************************************)
\* An element is a sign and a magnitude, so that the float -0.0 is an element
\* of its own; Numeric is the number == compares.
Elem(sign, mag) == [sign |-> sign, mag |-> mag]

Numeric(e) == IF e.sign = 1 THEN -e.mag ELSE e.mag

DTypes == {"int8", "float16"}

ElemsOf(dtype) ==
    IF dtype = "int8" THEN {Elem(0, 0), Elem(0, 1)}
    ELSE {Elem(0, 0), Elem(1, 0)}

\* one-dimensional arrays of a dtype
Arrays ==
    UNION {{[dtype |-> d, data |-> x] : x \in UNION {[1..n -> ElemsOf(d)] : n \in 0..MaxShape}} :
           d \in DTypes}

RECURSIVE Log2(_)
Log2(m) == IF m < 2 THEN 0 ELSE 1 + Log2(m \div 2)

RECURSIVE Pow2(_)
Pow2(e) == IF e = 0 THEN 1 ELSE 2 * Pow2(e - 1)

\* the IEEE 754 half-precision bit pattern of a whole number
Float16Bits(e) ==
    LET ex == Log2(e.mag)
    IN  e.sign * 32768 +
        (IF e.mag = 0 THEN 0
         ELSE (ex + 15) * 1024 + ((e.mag - Pow2(ex)) * 1024) \div Pow2(ex))

\* the bytes of one element in the array's buffer (little-endian)
ElemBytes(dtype, e) ==
    IF dtype = "int8" THEN <<Numeric(e) % 256>>
    ELSE <<Float16Bits(e) % 256, Float16Bits(e) \div 256>>

\* the buffer of wrapped.view()
RECURSIVE Bytes(_)
Bytes(a) ==
    IF a.data = <<>> THEN <<>>
    ELSE ElemBytes(a.dtype, Head(a.data)) \o Bytes([a EXCEPT !.data = Tail(a.data)])

\* int(sha1(buffer).hexdigest(), 16).  SHA-1 is taken as collision-free: the
\* digest is a value that differs for each two byte strings and says nothing
\* else about them.
sha1(bytes) == [digest_of |-> bytes]

\* all(a == b): the element-wise comparison broadcasts a one-element array;
\* for shapes that do not broadcast it is not true (False, or an error,
\* with the numpy version)
ArrayEq(a, b) ==
    LET la == Len(a.data)
        lb == Len(b.data)
    IN  /\ la = lb \/ la = 1 \/ lb = 1
        /\ \A n \in 1..(IF la = 1 THEN lb ELSE la) :
               Numeric(a.data[IF la = 1 THEN 1 ELSE n]) =
               Numeric(b.data[IF lb = 1 THEN 1 ELSE n])

Wrappers == {1, 2}

Unbuilt == [built |-> FALSE, tight |-> FALSE, wrapped |-> 0, hash |-> sha1(<<>>)]

\* self.__wrapped = array(wrapped) if tight else wrapped
\* (id: the array passed in, copy: the array array(wrapped) creates)
WrappedField_nocopy(tight, id, copy) == id

WrappedField(tight, id, copy) == IF tight THEN copy ELSE id

\* __eq__
HashableEq(w, other) == ArrayEq(heap[wrappers[w].wrapped], heap[wrappers[other].wrapped])

\* __hash__
HashableHash(w) == wrappers[w].hash

(***************************************************************************)
(* Initial states: one helper and its arguments.                           *)
(***************************************************************************)
Idle ==
    /\ alive = [t \in Threads |-> FALSE]
    /\ threads = <<>>
    /\ i = 0
    /\ kept = <<>>
    /\ log = <<>>
    /\ stdin = <<>>
    /\ stdout = <<>>
    /\ heap = <<>>
    /\ exposed = {}
    /\ wrappers = [w \in Wrappers |-> Unbuilt]
    /\ snapshot = [w \in Wrappers |-> <<>>]

InitExtractArgs ==
    /\ fn = "extract_args"
    /\ args \in [kwargs : Dicts, keys_to_extract : SUBSET Keys]
    /\ arr = <<>>
    /\ Idle

InitCapLength ==
    /\ fn = "cap_length"
    /\ args \in [s : Strings, char_limit : 0..MaxCharLimit, append_ellipsis : BOOLEAN]
    /\ arr = <<>>
    /\ Idle

InitOneHot ==
    /\ fn = "one_hot"
    /\ args \in [hot_idx : (-MaxOneHot - 1)..(MaxOneHot + 1), length : -1..MaxOneHot]
    /\ arr = <<>>
    /\ Idle

InitSubsample ==
    /\ fn = "subsample_array"
    /\ args \in [arr : Lists, max_values : -1..(MaxListLen + 1),
                 can_modify_incoming_array : BOOLEAN, rand : {"None", "Random"}]
    /\ arr = args.arr
    /\ Idle

InitRequestInput ==
    /\ fn = "request_input"
    /\ args \in [valid_values : ValidValues, max_suggested : 1..MaxValid]
    /\ arr = <<>>
    /\ Idle

\* the threads handed over have been started: each is running or has ended
InitWaitForThreads ==
    /\ fn = "wait_for_threads"
    /\ args \in [threads : ThreadLists]
    /\ arr = <<>>
    /\ alive \in [Threads -> BOOLEAN]
    /\ threads = args.threads
    /\ i = 0
    /\ kept = <<>>
    /\ log = <<>>
    /\ stdin = <<>>
    /\ stdout = <<>>
    /\ heap = <<>>
    /\ exposed = {}
    /\ wrappers = [w \in Wrappers |-> Unbuilt]
    /\ snapshot = [w \in Wrappers |-> <<>>]

\* the caller holds two arrays and has built no wrapper yet
InitHashable ==
    /\ pc = "idle"
    /\ ret = NoOutcome
    /\ fn = "HashableNDArray"
    /\ args = <<>>
    /\ arr = <<>>
    /\ alive = [t \in Threads |-> FALSE]
    /\ threads = <<>>
    /\ i = 0
    /\ kept = <<>>
    /\ log = <<>>
    /\ stdin = <<>>
    /\ stdout = <<>>
    /\ heap \in [1..2 -> Arrays]
    /\ exposed = {1, 2}
    /\ wrappers = [w \in Wrappers |-> Unbuilt]
    /\ snapshot = [w \in Wrappers |-> <<>>]

Init ==
    /\ pc = "call"
    /\ ret = NoOutcome
    /\ \/ InitExtractArgs
       \/ InitCapLength
       \/ InitOneHot
       \/ InitSubsample
       \/ InitRequestInput
       \/ InitWaitForThreads

(***************************************************************************)
(* Actions.                                                                *)
(***************************************************************************)
Finish(outcome) ==
    /\ ret' = outcome
    /\ pc' = IF outcome.kind = "raise" THEN "raised" ELSE "returned"

CallExtractArgs ==
    /\ fn = "extract_args" /\ pc = "call"
    /\ Finish(Return(extract_args(args.kwargs, args.keys_to_extract)))
    /\ UNCHANGED <<fn, args, arr, waitVars, inputVars, hashVars>>

CallCapLength ==
    /\ fn = "cap_length" /\ pc = "call"
    /\ Finish(Return(cap_length(args.s, args.char_limit, args.append_ellipsis)))
    /\ UNCHANGED <<fn, args, arr, waitVars, inputVars, hashVars>>

CallOneHot ==
    /\ fn = "one_hot" /\ pc = "call"
    /\ Finish(one_hot(args.hot_idx, args.length))
    /\ UNCHANGED <<fn, args, arr, waitVars, inputVars, hashVars>>

CallSubsample ==
    /\ fn = "subsample_array" /\ pc = "call"
    /\ \E p \in Permutations(1..Len(arr)) :
         LET out == subsample_array(arr, args.max_values,
                                    args.can_modify_incoming_array, p)
         IN  /\ Finish(Return(out.result))
             /\ arr' = out.caller
    /\ UNCHANGED <<fn, args, waitVars, inputVars, hashVars>>

\* one pass of the loop of request_input: input() is called once, with the
\* prompt or without; an unacceptable line, or a ValueError, prints the
\* message and loops
ReadInput ==
    /\ fn = "request_input" /\ pc \in {"call", "loop"}
    /\ Len(stdin) < MaxReads
    /\ \E ev \in InputEvents :
         /\ stdin' = Append(stdin, ev)
         /\ \/ /\ ev.kind = "line" /\ Acceptable(args.valid_values, ev.text)
               /\ Finish(Return(ev.text))
               /\ UNCHANGED stdout
            \/ /\ \/ ev.kind = "line" /\ ~Acceptable(args.valid_values, ev.text)
                  \/ ev.kind = "ValueError" /\ args.valid_values.given
               /\ stdout' = Append(stdout,
                      wrong_input_message(args.valid_values, args.max_suggested))
               /\ pc' = "loop"
               /\ UNCHANGED ret
            \/ \* wrong_input_message() slices None
               /\ ev.kind = "ValueError" /\ ~args.valid_values.given
               /\ Finish(Raise("TypeError"))
               /\ UNCHANGED stdout
            \/ /\ ev.kind = "EOFError"
               /\ Finish(Raise("EOFError"))
               /\ UNCHANGED stdout
    /\ UNCHANGED <<fn, args, arr, waitVars, hashVars>>

\* while len(threads) > 0
WhileTest ==
    /\ fn = "wait_for_threads" /\ pc \in {"call", "while"}
    /\ IF Len(threads) > 0
       THEN pc' = "join" /\ i' = 1
       ELSE pc' = "log" /\ UNCHANGED i
    /\ UNCHANGED <<fn, args, ret, arr, alive, threads, kept, log, inputVars, hashVars>>

\* [t.join(1000) for t in threads]: one join returns, because the thread has
\* ended or because the timeout has run out
Join ==
    /\ fn = "wait_for_threads" /\ pc = "join"
    /\ IF i < Len(threads)
       THEN i' = i + 1 /\ UNCHANGED <<pc, kept>>
       ELSE pc' = "filter" /\ i' = 1 /\ kept' = <<>>
    /\ UNCHANGED <<fn, args, ret, arr, alive, threads, log, inputVars, hashVars>>

\* threads = [t for t in threads if t.isAlive()]: one thread is asked; after
\* the last one the new list is bound to threads
Filter ==
    /\ fn = "wait_for_threads" /\ pc = "filter"
    /\ LET t == threads[i]
           k == IF FilterKeeps(t) THEN Append(kept, t) ELSE kept
       IN  IF i < Len(threads)
           THEN i' = i + 1 /\ kept' = k /\ UNCHANGED <<pc, threads>>
           ELSE pc' = "while" /\ threads' = k /\ kept' = <<>> /\ i' = 0
    /\ UNCHANGED <<fn, args, ret, arr, alive, log, inputVars, hashVars>>

\* logger.info("Finished waiting ...") and the return
LogFinished ==
    /\ fn = "wait_for_threads" /\ pc = "log"
    /\ log' = Append(log, "Finished waiting")
    /\ Finish(Return(<<>>))
    /\ UNCHANGED <<fn, args, arr, alive, threads, i, kept, inputVars, hashVars>>

\* a worker thread ends
ThreadEnds ==
    /\ fn = "wait_for_threads" /\ pc \notin {"returned", "raised", "exited"}
    /\ \E t \in Threads :
         /\ alive[t]
         /\ alive' = [alive EXCEPT ![t] = FALSE]
    /\ UNCHANGED <<fn, pc, args, ret, arr, threads, i, kept, log, inputVars, hashVars>>

\* KeyboardInterrupt is raised in the waiting thread: inside the try block the
\* handler takes it, anywhere else it leaves the function
KeyboardInterrupt ==
    /\ fn = "wait_for_threads"
    /\ \/ /\ pc \in {"join", "filter"}
          /\ pc' = "except"
          /\ UNCHANGED ret
       \/ /\ pc \in {"call", "while", "log", "except"}
          /\ Finish(Raise("KeyboardInterrupt"))
    /\ UNCHANGED <<fn, args, arr, waitVars, inputVars, hashVars>>

\* a handler that swallows the interrupt and goes on waiting
Except_continue ==
    /\ fn = "wait_for_threads" /\ pc = "except"
    /\ log' = Append(log, "Ctrl-c received")
    /\ pc' = "while"
    /\ UNCHANGED <<fn, args, ret, arr, alive, threads, i, kept, inputVars, hashVars>>

\* except KeyboardInterrupt: logger.info("Ctrl-c received! ...") ; sys.exit(0)
Except ==
    /\ fn = "wait_for_threads" /\ pc = "except"
    /\ log' = Append(log, "Ctrl-c received")
    /\ pc' = "exited"
    /\ ret' = Exit(0)
    /\ UNCHANGED <<fn, args, arr, alive, threads, i, kept, inputVars, hashVars>>

WaiterStep == WhileTest \/ Join \/ Filter \/ LogFinished \/ Except

NextWait ==
    \/ WhileTest
    \/ Join
    \/ Filter
    \/ LogFinished
    \/ Except
    \/ ThreadEnds
    \/ KeyboardInterrupt

\* HashableNDArray(wrapped, tight): the hash is taken from the array passed in
Construct ==
    /\ fn = "HashableNDArray"
    /\ \E w \in Wrappers, id \in exposed, tight \in BOOLEAN :
         LET copy == Len(heap) + 1
         IN  /\ ~wrappers[w].built
             /\ tight => Len(heap) < MaxHeap
             /\ heap' = IF tight THEN Append(heap, heap[id]) ELSE heap
             /\ wrappers' = [wrappers EXCEPT ![w] =
                    [built |-> TRUE, tight |-> tight,
                     wrapped |-> WrappedField(tight, id, copy),
                     hash |-> sha1(Bytes(heap[id]))]]
             /\ snapshot' = [snapshot EXCEPT ![w] = heap[id]]
    /\ UNCHANGED <<fn, pc, args, ret, arr, waitVars, inputVars, exposed>>

\* w.unwrap(): a tight wrapper returns array(self.__wrapped), a new array; a
\* loose one returns the wrapped array itself, which the caller holds already
UnwrapOf(w) ==
    LET copy == Len(heap) + 1
    IN  /\ fn = "HashableNDArray"
        /\ wrappers[w].built
        /\ IF wrappers[w].tight
           THEN /\ Len(heap) < MaxHeap
                /\ heap' = Append(heap, heap[wrappers[w].wrapped])
                /\ exposed' = exposed \cup {copy}
           ELSE /\ UNCHANGED heap
                /\ exposed' = exposed \cup {wrappers[w].wrapped}
        /\ UNCHANGED <<fn, pc, args, ret, arr, waitVars, inputVars, wrappers, snapshot>>

Unwrap == \E w \in Wrappers : UnwrapOf(w)

\* the caller writes an element of an array it holds: a[n] = e
Mutate ==
    /\ fn = "HashableNDArray"
    /\ \E id \in exposed :
         \E n \in 1..Len(heap[id].data), e \in ElemsOf(heap[id].dtype) :
             /\ heap[id].data[n] # e
             /\ heap' = [heap EXCEPT ![id].data[n] = e]
    /\ UNCHANGED <<fn, pc, args, ret, arr, waitVars, inputVars, exposed, wrappers, snapshot>>

NextHashable ==
    \/ Construct
    \/ Unwrap
    \/ Mutate

Next ==
    \/ CallExtractArgs
    \/ CallCapLength
    \/ CallOneHot
    \/ CallSubsample
    \/ ReadInput
    \/ NextWait

Spec == Init /\ [][Next]_vars

\* the life of two HashableNDArray objects and of the arrays around them
SpecHashable == InitHashable /\ [][NextHashable]_vars

\* wait_for_threads alone, its own steps taken whenever they stay possible:
\* the waiting thread is scheduled, and a join with a timeout returns
InitWait == Init /\ fn = "wait_for_threads"

SpecWait == InitWait /\ [][NextWait]_vars /\ WF_vars(WaiterStep)

(***************************************************************************)
(* Properties.                                                             *)
(***************************************************************************)
\* C1: extract_args(kwargs, keys_to_extract) returns (extracted, remaining)
\* where extracted holds exactly the keys of kwargs that are in
\* keys_to_extract, remaining exactly the others, each with its original
\* value; the two key sets are disjoint and their union is the key set of
\* kwargs (a key to extract that kwargs lacks is in neither).
C1_ExtractArgsPartitions ==
    (fn = "extract_args" /\ pc = "returned") =>
        LET kwargs == args.kwargs
            extracted == ret.value[1]
            remaining == ret.value[2]
        IN  /\ DOMAIN extracted = (DOMAIN kwargs) \cap args.keys_to_extract
            /\ DOMAIN remaining = (DOMAIN kwargs) \ args.keys_to_extract
            /\ (DOMAIN extracted) \cap (DOMAIN remaining) = {}
            /\ (DOMAIN extracted) \cup (DOMAIN remaining) = DOMAIN kwargs
            /\ \A k \in DOMAIN extracted : extracted[k] = kwargs[k]
            /\ \A k \in DOMAIN remaining : remaining[k] = kwargs[k]

\* a call that extracted a key, left a key, and was asked for a key kwargs lacks
C1_Witness ==
    /\ fn = "extract_args" /\ pc = "returned"
    /\ DOMAIN ret.value[1] # {}
    /\ DOMAIN ret.value[2] # {}
    /\ args.keys_to_extract \ DOMAIN args.kwargs # {}

\* C5: for max_values >= 0, subsample_array returns min(len(arr), max_values)
\* elements forming a sub-multiset of arr; with can_modify_incoming_array
\* False the caller's list is unchanged, with True it keeps its multiset.
C5_SubsampleIsSubMultiset ==
    (fn = "subsample_array" /\ pc = "returned" /\ args.max_values >= 0) =>
        /\ Len(ret.value) = Min(Len(args.arr), args.max_values)
        /\ \A x \in Elems : Count(ret.value, x) <= Count(args.arr, x)
        /\ ~args.can_modify_incoming_array => arr = args.arr
        /\ args.can_modify_incoming_array =>
               \A x \in Elems : Count(arr, x) = Count(args.arr, x)

\* a call that kept the caller's list although the shuffle reordered the copy,
\* and cut the result short
C5_Witness ==
    /\ fn = "subsample_array" /\ pc = "returned"
    /\ ~args.can_modify_incoming_array
    /\ args.max_values > 0
    /\ Len(args.arr) > args.max_values
    /\ ret.value # PySliceTo(args.arr, args.max_values)
    /\ arr = args.arr

\* C6: for every s, char_limit >= 0 and append_ellipsis, the result of
\* cap_length is at most char_limit long; s is returned unchanged when it
\* fits, and a longer s capped with the ellipsis is exactly char_limit long
\* and ends in "...".
C6_CapLengthWithinLimit ==
    (fn = "cap_length" /\ pc = "returned") =>
        /\ Len(ret.value) <= args.char_limit
        /\ Len(args.s) <= args.char_limit => ret.value = args.s
        /\ (Len(args.s) > args.char_limit /\ args.append_ellipsis) =>
               /\ Len(ret.value) = args.char_limit
               /\ SubSeq(ret.value, Len(ret.value) - 2, Len(ret.value)) = Ellipsis

\* C7: one_hot(hot_idx, length) raises the explicit out-of-range error exactly
\* when hot_idx is not a position of a vector of that length, and otherwise
\* returns `length` entries, 1 at position hot_idx and 0 elsewhere.
C7_OneHotOrExplicitError ==
    (fn = "one_hot" /\ pc # "call") =>
        IF 0 <= args.hot_idx /\ args.hot_idx < args.length
        THEN ret = Return([n \in 1..args.length |->
                              IF n = args.hot_idx + 1 THEN 1 ELSE 0])
        ELSE ret = Raise("Exception: out of range")

AllEnded == \A t \in Range(args.threads) : ~alive[t]

NoInterrupt == pc \notin {"except", "exited", "raised"}

C2_Safety ==
    fn = "wait_for_threads" =>
        /\ pc \in {"log", "returned"} => AllEnded
        /\ \A t \in Range(args.threads) \ Range(threads) : ~alive[t]
        /\ pc = "filter" =>
               \A n \in 1..(i - 1) : threads[n] \notin Range(kept) => ~alive[threads[n]]

\* C2: wait_for_threads returns normally only when every thread of the input
\* list has ended; a thread leaves the tracked list (or is passed over by the
\* running filter) only when it has ended; and if no interrupt occurs and
\* every thread of the list ends, the call returns.
C2_WaitsForAllThreads ==
    /\ []C2_Safety
    /\ ([]NoInterrupt /\ <>AllEnded) => <>(pc = "returned")

\* the loop is back at its test having dropped a thread while another, still
\* running, stays tracked
C2_Witness ==
    /\ fn = "wait_for_threads" /\ pc = "while"
    /\ Len(threads) > 0
    /\ Len(threads) < Len(args.threads)
    /\ \E t \in Range(threads) : alive[t]

\* C8: request_input returns only the first acceptable input: with
\* valid_values given, a member of valid_values that no earlier line was;
\* with None, the first line.  Every refused input printed one invalid-answer
\* message and led to another read, not to a return or a failure.
C8_RequestInputRepeats ==
    fn = "request_input" =>
        LET vv == args.valid_values
            Refused(ev) == ev.kind = "line" /\ vv.given /\ ev.text \notin Range(vv.values)
            Unreadable(ev) == ev.kind = "ValueError" /\ vv.given
        IN  /\ pc = "returned" =>
                /\ stdin[Len(stdin)] = [kind |-> "line", text |-> ret.value]
                /\ vv.given =>
                       /\ ret.value \in Range(vv.values)
                       /\ \A n \in 1..(Len(stdin) - 1) :
                              stdin[n].kind = "line" => stdin[n].text \notin Range(vv.values)
                /\ ~vv.given => Len(stdin) = 1
            /\ \A n \in 1..Len(stdin) :
                   Refused(stdin[n]) => (n < Len(stdin) \/ pc = "loop")
            /\ Len(stdout) =
                   Cardinality({n \in 1..Len(stdin) : Refused(stdin[n]) \/ Unreadable(stdin[n])})
            /\ \A n \in 1..Len(stdout) :
                   stdout[n] = wrong_input_message(vv, args.max_suggested)

\* two refused lines, then the accepted one
C8_Witness ==
    /\ fn = "request_input" /\ pc = "returned"
    /\ Len(stdin) = 3
    /\ stdin[1].kind = "line" /\ stdin[2].kind = "line"
    /\ Len(stdout) = 2

\* C9: once the interrupt has reached the handler, wait_for_threads joins no
\* thread, asks no thread, does not go back to the loop and does not log the
\* normal end: the handler's only step is sys.exit(0), whatever the threads
\* do (only a further interrupt inside the handler leaves it another way).
C9_InterruptExits ==
    /\ [][(fn = "wait_for_threads" /\ pc \in {"except", "exited"}) =>
             /\ pc' \in {"except", "exited", "raised"}
             /\ UNCHANGED <<threads, i, kept>>
             /\ "Finished waiting" \notin Range(log')
             /\ (pc = "except" /\ pc' = "exited") => ret' = Exit(0)
             /\ (pc = "except" /\ pc' = "raised") => ret' = Raise("KeyboardInterrupt")
             /\ pc = "exited" => UNCHANGED <<pc, ret>>]_vars
    /\ []((fn = "wait_for_threads" /\ pc = "exited") => ret = Exit(0))

\* the process has exited with status 0 while a tracked thread is still running
C9_Witness ==
    /\ fn = "wait_for_threads" /\ pc = "exited"
    /\ ret = Exit(0)
    /\ \E t \in Range(threads) : alive[t]

\* C3: two wrappers whose arrays compared equal element-wise when they were
\* built, neither array changed since, compare equal and have the same hash.
C3_EqualArraysHashEqually ==
    fn = "HashableNDArray" =>
        \A w, v \in Wrappers :
            (/\ wrappers[w].built /\ wrappers[v].built
             /\ heap[wrappers[w].wrapped] = snapshot[w]
             /\ heap[wrappers[v].wrapped] = snapshot[v]
             /\ ArrayEq(snapshot[w], snapshot[v]))
            => (HashableEq(w, v) /\ HashableHash(w) = HashableHash(v))

TightIsolated ==
    fn = "HashableNDArray" =>
        \A w \in Wrappers :
            (wrappers[w].built /\ wrappers[w].tight) =>
                /\ heap[wrappers[w].wrapped] = snapshot[w]
                /\ wrappers[w].wrapped \notin exposed

\* C4: whatever the caller writes to the arrays it holds (the array the
\* wrapper was built from, the arrays unwrap() returned), a tight wrapper's
\* stored array, the one __eq__ reads, keeps the contents it was built with
\* and is never among the arrays the caller holds; each unwrap() returns a
\* new array with those contents.
C4_TightWrapperIsolated ==
    /\ []TightIsolated
    /\ [][\A w \in Wrappers :
             (UnwrapOf(w) /\ wrappers[w].tight) =>
                 LET id == Len(heap) + 1
                 IN  /\ id \notin DOMAIN heap
                     /\ id # wrappers[w].wrapped
                     /\ exposed' \ exposed = {id}
                     /\ heap'[id] = snapshot[w]
                     /\ heap'[wrappers[w].wrapped] = snapshot[w]]_vars

\* a tight wrapper of a non-empty array, after unwrap(), when every array the
\* caller holds (the original and the unwrapped one among them) differs from
\* what the wrapper was built with
C4_Witness ==
    /\ fn = "HashableNDArray"
    /\ \E w \in Wrappers :
         /\ wrappers[w].built /\ wrappers[w].tight
         /\ snapshot[w].data # <<>>
         /\ Cardinality(exposed) >= 3
         /\ \A id \in exposed : heap[id] # snapshot[w]

\* C10: the hash a wrapper returns is the one computed from the array it was
\* built from, whatever happened since; and for tight wrappers no state is
\* reached in which two wrappers compare equal with different hashes, or in
\* which a wrapper's contents do not match its hash.
C10_HashFixedAndTightConsistent ==
    fn = "HashableNDArray" =>
        /\ \A w \in Wrappers :
               wrappers[w].built => HashableHash(w) = sha1(Bytes(snapshot[w]))
        /\ \A w, v \in Wrappers :
               (/\ wrappers[w].built /\ wrappers[w].tight
                /\ wrappers[v].built /\ wrappers[v].tight)
               => /\ HashableHash(w) = sha1(Bytes(heap[wrappers[w].wrapped]))
                  /\ HashableEq(w, v) => HashableHash(w) = HashableHash(v)

\* The part of C10 that the code keeps: the hash is never recomputed, and a
\* tight wrapper's hash stays the hash of its contents.
HashNeverRecomputed ==
    fn = "HashableNDArray" =>
        \A w \in Wrappers :
            wrappers[w].built =>
                /\ HashableHash(w) = sha1(Bytes(snapshot[w]))
                /\ wrappers[w].tight =>
                       HashableHash(w) = sha1(Bytes(heap[wrappers[w].wrapped]))

\* The loose half of C10: a loose wrapper whose contents no longer match its hash
LooseWrapperOutOfDate ==
    /\ fn = "HashableNDArray"
    /\ \E w \in Wrappers :
         /\ wrappers[w].built /\ ~wrappers[w].tight
         /\ HashableHash(w) # sha1(Bytes(heap[wrappers[w].wrapped]))

====
